---------------------------- MODULE Spec2Model ----------------------------
(***************************************************************************)
(* A model of threeML's minimizer layer                                    *)
(* (src/threeML/minimizer/minimization.py): the MinuitMinimizer binding    *)
(* with its MIGRAD retry loop, its result store and get_errors(), and the  *)
(* contour engine (MinuitMinimizer.contours and ContourWorker) with its    *)
(* serial and parallel execution strategies; and of the constructors of    *)
(* MinuitMinimizer and of the two ROOTMinimizer classes (minimization.py   *)
(* and ROOT_minimizer.py).                                                 *)
(*                                                                         *)
(* The optimizer engine (iminuit's Minuit) and the worker pool are         *)
(* external: a MIGRAD pass, HESSE and MINOS are nondeterministic choices   *)
(* over the values an engine can leave behind.                             *)
(*                                                                         *)
(* Numbers.  Parameter and objective values are small naturals.  The       *)
(* estimated distance to minimum (edm) is kept in thousandths, so that the *)
(* criterion  edm <= 0.002 * tol * 0.5  is integer arithmetic.             *)
(*                                                                         *)
(* Names.  A parameter name is a sequence of one-character strings, so     *)
(* that str.replace(".", "_") is modelled by what it does.                 *)
(*                                                                         *)
(* Python's None is the empty tuple None == << >> and a value v that may   *)
(* be None is kept as Some(v) == << v >>.  An OrderedDict is a sequence of *)
(* << key, value >> pairs in insertion order.                              *)
(***************************************************************************)
EXTENDS Integers, Sequences, FiniteSets, TLC

(***************************************************************************)
(* Bounds of the model.                                                    *)
(***************************************************************************)
\* parameter values range over 0..MaxVal
MaxVal == 1
\* a contour axis has at most MaxSteps steps
MaxSteps == 2
\* a contour grid has at most MaxGrid points
MaxGrid == 4
\* a registry handed to a constructor has at most MaxPar parameters
MaxPar == 2

(***************************************************************************)
(* Program constants.                                                      *)
(***************************************************************************)
\* minimization.py:30  FIT_FAILED = 1e12.  TLC's integers are 32 bits wide,
\* so the sentinel is scaled to 10^9; like the original it lies far outside
\* the range of every objective value.
FIT_FAILED == 10 ^ 9
\* minimization.py:250  self._run_migrad(10)
TRIALS == 10
\* minimization.py:89  ftol=1e3, assigned to minuit.tol at line 152
FTOL == 1000

None == << >>
Some(v) == << v >>

Values == 0 .. MaxVal
\* edm in thousandths: FTOL is the largest edm that satisfies the criterion
\* for tol = FTOL, FTOL + 1 the smallest one that does not.
EdmValues == {FTOL, FTOL + 1}

\* Parameter identities, dotted (source.shape.parname in the code).
PX == << "s", ".", "x" >>
PY == << "s", ".", "y" >>
\* The registries the model constructs a binding from.
Registries == { << PX >>, << PX, PY >> }
\* A parameter that no registry declares.
PZ == << "s", ".", "z" >>
PU == << "s", "_", "x" >>

\* numpy.nan, the placeholder of the missing second axis (line 584)
NaN == -1

Range(s) == { s[j] : j \in DOMAIN s }

(***************************************************************************)
(* State.                                                                  *)
(***************************************************************************)
VARIABLES
    parameters,               \* self.parameters: sequence of [name, value]
    minuit,                   \* self.minuit: [values, edm, fval, tol]
    best_fit_parameters,      \* self._best_fit_parameters: None or Some(dict)
    function_minimum_value,   \* self._function_minimum_value: None or Some(n)
    pc,                       \* position of the running operation
    i,                        \* loop variable of _run_migrad (0 outside it)
    run,                      \* what the latest minimize() has done so far
    last,                     \* how the last finished operation ended
    stored_by,                \* which minimize() call wrote each store field:
                              \* "none", "new" (the latest call), "old"
    behaviour,                \* where and how evaluating a grid point goes wrong
    frame,                    \* the locals of the latest contours() call
    pool,                     \* the worker pool's tasks (amr), by grid index
    progress_bar,             \* the ProgressBar of the call: None or Some(bar)
    history,                  \* how the contours() calls made so far ended
    root,                     \* the ROOTMinimizer binding, if one was made
    class_f                   \* MinuitMinimizer._f, the attribute of the class:
                              \* the calling sequence of the generated function
                              \* installed last, or None

fit_vars == << parameters, minuit, best_fit_parameters, function_minimum_value,
               pc, i, run, last, stored_by >>

contour_vars == << behaviour, frame, pool, progress_bar, history >>

vars == << fit_vars, contour_vars, root, class_f >>

(***************************************************************************)
(* Pure helpers.                                                           *)
(***************************************************************************)
\* OrderedDict lookup d[k]
Lookup(d, k) == d[CHOOSE j \in DOMAIN d : d[j][1] = k][2]

Keys(d) == [j \in DOMAIN d |-> d[j][1]]

\* MinuitMinimizer._parameter_name_to_minuit_name: parameter.replace(".", "_")
ParameterNameToMinuitName(parameter) ==
    [j \in DOMAIN parameter |->
        IF parameter[j] = "." THEN "_" ELSE parameter[j]]

ParNames(ps) == [j \in DOMAIN ps |-> ps[j].name]

MinuitNames(ps) == { ParameterNameToMinuitName(ps[j].name) : j \in DOMAIN ps }

\* The calling sequence of the function a MinuitMinimizer generates,
\* 'def _f(self, %s)' with the engine names in registry order.
Signature(ps) == [j \in DOMAIN ps |-> ParameterNameToMinuitName(ps[j].name)]

\* add_method(self, method, name): setattr(self.__class__, name, method).
\* The method becomes the attribute of the class, whatever it was before.
AddMethod(class_attribute, method) == Some(method)

\* self._f read on an instance: the function the class holds now, bound to
\* the instance.  Called, it takes the arguments of that function's calling
\* sequence and passes them on to the instance's own objective, which takes
\* one argument per entry of the instance's registry.
BoundF(ps, class_attribute) ==
    [signature |-> class_attribute[1], npar |-> Len(ps)]

\* the value of parameter k in the registry
ParValue(ps, k) == ps[CHOOSE j \in DOMAIN ps : ps[j].name = k].value

\* The caller's objective function, called positionally with one value per
\* registry entry.  The model's objective reads its arguments as the digits
\* of a number in base MaxVal + 1: distinct points have distinct values.
Objective(xs) ==
    IF Len(xs) = 1 THEN xs[1] ELSE (MaxVal + 1) * xs[1] + xs[2]

\* self._f(x1, ..., xN) at the engine's values: the arguments in the order
\* of the signature, which is the registry's order.
ObjectiveAt(ps, vs) ==
    Objective([j \in DOMAIN ps |-> vs[ParameterNameToMinuitName(ps[j].name)]])

\* MinuitMinimizer.__init__: the engine starts from the registry's values
\* (iminuit_init_parameters[name] = par.value), with tol = ftol.  The engine's
\* edm before the first pass is its own business; its fval is not read
\* before a pass has set it.
InitMinuit(ps, edm) ==
    [ values |-> [n \in MinuitNames(ps) |->
                    ps[CHOOSE j \in DOMAIN ps :
                         ParameterNameToMinuitName(ps[j].name) = n].value],
      edm |-> edm, fval |-> 0, tol |-> FTOL ]

\* MinuitMinimizer._migrad_has_converged:
\*     self.minuit.edm <= 0.002 * self.minuit.tol * 0.5
\* with m.edm in thousandths (both sides times 10^6).
MigradHasConverged(m) == 1000 * m.edm <= 2 * m.tol * 500

\* What the convergence criterion of the MINUIT manual says of an edm (in
\* thousandths) under tolerance tol; the observations in `run` use it.
EdmMeetsCriterion(edm, tol) == edm <= tol

NoResult == [op |-> "none", status |-> "none", exc |-> "none", ret |-> << >>]
Returned(op, ret) == [op |-> op, status |-> "returned", exc |-> "none", ret |-> ret]
Raised(op, exc) == [op |-> op, status |-> "raised", exc |-> exc, ret |-> << >>]

\* passes: MIGRAD passes completed; converged: some pass met the criterion;
\* had_prior: a result was stored when minimize() was called.  A call that a
\* raising pass abandons leaves only raised = TRUE.
NoRun == [passes |-> 0, converged |-> FALSE, raised |-> FALSE,
          had_prior |-> FALSE]

EngineValues(ps) == [MinuitNames(ps) -> Values]

(***************************************************************************)
(* Construction.                                                           *)
(***************************************************************************)
InitBinding ==
    /\ \E reg \in Registries : \E vs \in [DOMAIN reg -> Values] :
         parameters = [j \in DOMAIN reg |-> [name |-> reg[j], value |-> vs[j]]]
    /\ \E edm \in EdmValues : minuit = InitMinuit(parameters, edm)
    /\ best_fit_parameters = None
    /\ function_minimum_value = None

\* No contours() call has been made.
NoFrame ==
    [ param_1 |-> None, param_2 |-> None, steps1 |-> << >>, steps2 |-> << >>,
      grid |-> << >>, parallel |-> FALSE, progress |-> FALSE,
      warned |-> FALSE, worker |-> << >>, results |-> << >> ]

NoContours ==
    /\ frame = NoFrame
    /\ pool = << >>
    /\ progress_bar = None
    /\ history = << >>

\* No ROOTMinimizer has been constructed.
NoRoot == [variant |-> "none", minimizer |-> None]

\* Every grid point evaluates without trouble.
NoTrouble == [at |-> 0, kind |-> "converged"]

Init ==
    /\ InitBinding
    /\ pc = "idle"
    /\ i = 0
    /\ run = NoRun
    /\ last = NoResult
    /\ stored_by = [best_fit |-> "none", minimum |-> "none"]
    /\ behaviour = NoTrouble
    /\ NoContours
    /\ root = NoRoot
    /\ class_f = AddMethod(None, Signature(parameters))

(***************************************************************************)
(* minimize(): _run_migrad(10), then the check and the store.              *)
(***************************************************************************)
\* minimize() is entered: _run_migrad starts its for loop at i = 0.
MinimizeCall ==
    /\ pc = "idle"
    /\ pc' = "run_migrad"
    /\ i' = 0
    /\ run' = [NoRun EXCEPT !.had_prior = best_fit_parameters # None]
    /\ last' = NoResult
    /\ stored_by' = [f \in DOMAIN stored_by |->
                        IF stored_by[f] = "new" THEN "old" ELSE stored_by[f]]
    /\ UNCHANGED << parameters, minuit, best_fit_parameters,
                    function_minimum_value >>
    /\ UNCHANGED << contour_vars, root, class_f >>

\* A retry loop that gives up one round early.
RunMigradStopsEarly(m, idx) == ~ MigradHasConverged(m) /\ idx + 2 < TRIALS

\* A retry loop without its break.
RunMigradNeverBreaks(m, idx) == idx + 1 < TRIALS

\* for i in range(trials): where the loop goes after a pass that left the
\* engine in state m: "after_migrad" on break or exhaustion, else round again.
RunMigradContinues(m, idx) == ~ MigradHasConverged(m) /\ idx + 1 < TRIALS

\* One round of the loop: self.minuit.migrad(), then the convergence test.
\* The pass leaves the engine at values vs and an edm of its choosing, with
\* fval the objective there, or raises (minimization.py:926 "I don't exactly know which kind of
\* exception migrad can raise"), which ends minimize() with that exception.
MigradPass(vs, edm, raises) ==
    /\ pc = "run_migrad"
    /\ LET m == [minuit EXCEPT !.values = vs, !.edm = edm,
                               !.fval = ObjectiveAt(parameters, vs)]
       IN  /\ minuit' = m
           /\ IF raises
              THEN /\ pc' = "idle"
                   /\ i' = 0
                   /\ run' = [NoRun EXCEPT !.raised = TRUE]
                   /\ last' = Raised("minimize", "EngineError")
              ELSE /\ run' = [run EXCEPT !.passes = @ + 1,
                                         !.converged =
                                             @ \/ EdmMeetsCriterion(edm, m.tol)]
                   /\ last' = last
                   /\ IF RunMigradContinues(m, i)
                      THEN pc' = "run_migrad" /\ i' = i + 1
                      ELSE pc' = "after_migrad" /\ i' = 0
    /\ UNCHANGED << parameters, best_fit_parameters, function_minimum_value,
                    stored_by >>
    /\ UNCHANGED << contour_vars, root, class_f >>

\* The result kept in a mapping that loses the registry's order.
BestFitOfUnordered(ps, m) ==
    [j \in DOMAIN ps |->
        << ps[Len(ps) + 1 - j].name,
           m.values[ParameterNameToMinuitName(ps[Len(ps) + 1 - j].name)] >>]

\* the OrderedDict minimize() builds: for k, par in parameters.iteritems():
\*     best_fit[k] = self.minuit.values[minuit_name]
BestFitOf(ps, m) ==
    [j \in DOMAIN ps |->
        << ps[j].name, m.values[ParameterNameToMinuitName(ps[j].name)] >>]

\* _restore_best_fit on the registry: par.value = self.best_fit_parameters[k]
RestoredParameters(ps, bf) ==
    [j \in DOMAIN ps |-> [ps[j] EXCEPT !.value = Lookup(bf, ps[j].name)]]

\* The restore that writes the registry and leaves the engine alone.
RestoredValuesRegistryOnly(ps, bf, vs) == vs

\* The restore with its two assignments in the other order: the engine gets
\* the value the registry held before the call.
RestoredValuesBeforeRegistry(ps, bf, vs) ==
    [n \in DOMAIN vs |->
        IF \E j \in DOMAIN ps : ParameterNameToMinuitName(ps[j].name) = n
        THEN ps[CHOOSE j \in DOMAIN ps :
                    ParameterNameToMinuitName(ps[j].name) = n].value
        ELSE vs[n]]

\* _restore_best_fit on the engine: self.minuit.values[minuit_name] = par.value.
\* The loop runs in registry order, so the last parameter with a given engine
\* name decides that name's value.
RestoredValues(ps, bf, vs) ==
    [n \in DOMAIN vs |->
        IF \E j \in DOMAIN ps : ParameterNameToMinuitName(ps[j].name) = n
        THEN LET last_j == CHOOSE j \in DOMAIN ps :
                     /\ ParameterNameToMinuitName(ps[j].name) = n
                     /\ \A l \in DOMAIN ps :
                          ParameterNameToMinuitName(ps[l].name) = n => l <= j
             IN  Lookup(bf, ps[last_j].name)
        ELSE vs[n]]

\* A store that writes the best fit and leaves the minimum of an earlier fit.
MinimizeFinishKeepsMinimum(hesse_vs) ==
    /\ pc = "after_migrad"
    /\ pc' = "idle"
    /\ i' = i
    /\ run' = run
    /\ UNCHANGED << contour_vars, root, class_f >>
    /\ IF ~ MigradHasConverged(minuit)
       THEN /\ last' = Returned("minimize", << << >>, FIT_FAILED >>)
            /\ UNCHANGED << parameters, minuit, best_fit_parameters,
                            function_minimum_value, stored_by >>
       ELSE LET bf == BestFitOf(parameters, minuit)
                keep == function_minimum_value # None
            IN  /\ best_fit_parameters' = Some(bf)
                /\ function_minimum_value' =
                       IF keep THEN function_minimum_value
                       ELSE Some(minuit.fval)
                /\ stored_by' = [best_fit |-> "new",
                                 minimum |-> IF keep THEN stored_by.minimum
                                             ELSE "new"]
                /\ parameters' = RestoredParameters(parameters, bf)
                /\ minuit' = [minuit EXCEPT
                                !.values = RestoredValues(parameters, bf, hesse_vs)]
                /\ last' = Returned("minimize", << bf, minuit.fval >>)

\* The rest of minimize() (lines 252-281).  Not converged: return the empty
\* OrderedDict and FIT_FAILED, the store untouched.  Converged: store the
\* engine's values and fval, run HESSE (which leaves the engine's values at
\* hesse_vs), restore the best fit, return the stored pair.
MinimizeFinish(hesse_vs) ==
    /\ pc = "after_migrad"
    /\ pc' = "idle"
    /\ i' = i
    /\ run' = run
    /\ UNCHANGED << contour_vars, root, class_f >>
    /\ IF ~ MigradHasConverged(minuit)
       THEN /\ last' = Returned("minimize", << << >>, FIT_FAILED >>)
            /\ UNCHANGED << parameters, minuit, best_fit_parameters,
                            function_minimum_value, stored_by >>
       ELSE LET bf == BestFitOf(parameters, minuit)
            IN  /\ best_fit_parameters' = Some(bf)
                /\ function_minimum_value' = Some(minuit.fval)
                /\ stored_by' = [best_fit |-> "new", minimum |-> "new"]
                /\ parameters' = RestoredParameters(parameters, bf)
                /\ minuit' = [minuit EXCEPT
                                !.values = RestoredValues(parameters, bf, hesse_vs)]
                /\ last' = Returned("minimize", << bf, minuit.fval >>)

(***************************************************************************)
(* get_errors() (lines 398-491).                                           *)
(***************************************************************************)
\* _restore_best_fit() comes first: with a non-empty registry and
\* _best_fit_parameters still None, self.best_fit_parameters[k] raises
\* TypeError (None is not subscriptable) before anything is written.
\* Otherwise registry and engine are set to the best fit; then the
\* convergence test may raise CannotComputeErrors; then MINOS runs, leaving
\* the engine's values at minos_vs, and either raises (re-raised as is) or
\* is followed by a second _restore_best_fit() and the return of the errors.
GetErrors(minos_vs, minos_raises) ==
    /\ pc = "idle"
    /\ run' = NoRun
    /\ UNCHANGED << best_fit_parameters, function_minimum_value, pc, i,
                    stored_by >>
    /\ UNCHANGED << contour_vars, root, class_f >>
    /\ IF best_fit_parameters = None
       THEN /\ last' = Raised("get_errors", "TypeError")
            /\ UNCHANGED << parameters, minuit >>
       ELSE LET bf == best_fit_parameters[1]
                ps == RestoredParameters(parameters, bf)
                vs == RestoredValues(parameters, bf, minuit.values)
            IN  /\ parameters' = ps
                /\ IF ~ MigradHasConverged(minuit)
                   THEN /\ minuit' = [minuit EXCEPT !.values = vs]
                        /\ last' = Raised("get_errors", "CannotComputeErrors")
                   ELSE IF minos_raises
                   THEN /\ minuit' = [minuit EXCEPT !.values = minos_vs]
                        /\ last' = Raised("get_errors", "EngineError")
                   ELSE /\ minuit' = [minuit EXCEPT
                                        !.values = RestoredValues(ps, bf, minos_vs)]
                        /\ last' = Returned("get_errors",
                                            [j \in DOMAIN ps |->
                                                << ps[j].name, "merrors" >>])

(***************************************************************************)
(* _restore_best_fit() (lines 224-237), called on its own.  It returns     *)
(* nothing; the result kept for it tells whether the call directly follows *)
(* another _restore_best_fit() that returned.                              *)
(***************************************************************************)
RestoreBestFit ==
    /\ pc = "idle"
    /\ run' = NoRun
    /\ UNCHANGED << best_fit_parameters, function_minimum_value, pc, i,
                    stored_by >>
    /\ UNCHANGED << contour_vars, root, class_f >>
    /\ IF best_fit_parameters = None
       THEN /\ last' = Raised("_restore_best_fit", "TypeError")
            /\ UNCHANGED << parameters, minuit >>
       ELSE LET bf == best_fit_parameters[1]
            IN  /\ parameters' = RestoredParameters(parameters, bf)
                /\ minuit' = [minuit EXCEPT
                                !.values = RestoredValues(parameters, bf, @)]
                /\ last' = Returned("_restore_best_fit",
                                    << last.op = "_restore_best_fit"
                                         /\ last.status = "returned" >>)

(***************************************************************************)
(* print_fit_results() (lines 283-329): restore the best fit, then build   *)
(* and display one row per parameter from the registry's values and the    *)
(* engine's errors.  What is displayed is kept as the operation's result:  *)
(* the rows << name, value >> in registry order.                           *)
(***************************************************************************)
PrintFitResults ==
    /\ pc = "idle"
    /\ run' = NoRun
    /\ UNCHANGED << best_fit_parameters, function_minimum_value, pc, i,
                    stored_by >>
    /\ UNCHANGED << contour_vars, root, class_f >>
    /\ IF best_fit_parameters = None
       THEN /\ last' = Raised("print_fit_results", "TypeError")
            /\ UNCHANGED << parameters, minuit >>
       ELSE LET bf == best_fit_parameters[1]
                ps == RestoredParameters(parameters, bf)
            IN  /\ parameters' = ps
                /\ minuit' = [minuit EXCEPT
                                !.values = RestoredValues(parameters, bf, @)]
                /\ last' = Returned("print_fit_results",
                                    [j \in DOMAIN ps |->
                                        << ps[j].name, ps[j].value >>])

(***************************************************************************)
(* print_correlation_matrix() (lines 331-396): read the engine's           *)
(* covariance, raise CannotComputeCovariance if it is None, else display   *)
(* the correlations.  The covariance is the engine's own state: what the   *)
(* engine reports (None, or a covariance) is an input.  What is displayed  *)
(* is kept as the operation's result: the column names and the covariance  *)
(* the rows were computed from.  Nothing is written to the registry, the   *)
(* engine's values or the store.                                           *)
(***************************************************************************)
\* The test that lets every covariance through.
CovarianceIsMissingNever(cov) == FALSE

\* if cov is None  (line 343)
CovarianceIsMissing(cov) == cov = None

PrintCorrelationMatrix(cov) ==
    /\ pc = "idle"
    /\ run' = NoRun
    /\ last' = IF CovarianceIsMissing(cov)
               THEN Raised("print_correlation_matrix", "CannotComputeCovariance")
               ELSE Returned("print_correlation_matrix",
                             [cols |-> ParNames(parameters), cov |-> cov])
    /\ UNCHANGED << parameters, minuit, best_fit_parameters,
                    function_minimum_value, pc, i, stored_by >>
    /\ UNCHANGED << contour_vars, root, class_f >>

(***************************************************************************)
(* The caller changes a parameter's value in the registry between calls.   *)
(***************************************************************************)
SetParameter(j, v) ==
    /\ pc = "idle"
    /\ parameters[j].value # v
    /\ parameters' = [parameters EXCEPT ![j].value = v]
    /\ run' = NoRun
    /\ last' = Returned("set_value", << >>)
    /\ UNCHANGED << minuit, best_fit_parameters, function_minimum_value,
                    pc, i, stored_by >>
    /\ UNCHANGED << contour_vars, root, class_f >>

Next ==
    \/ MinimizeCall
    \/ \E vs \in EngineValues(parameters), edm \in EdmValues,
          raises \in BOOLEAN :
         MigradPass(vs, edm, raises)
    \/ \E hesse_vs \in EngineValues(parameters) : MinimizeFinish(hesse_vs)
    \/ \E minos_vs \in EngineValues(parameters), minos_raises \in BOOLEAN :
         GetErrors(minos_vs, minos_raises)
    \/ RestoreBestFit
    \/ PrintFitResults
    \/ \E cov \in {None, Some("covariance")} : PrintCorrelationMatrix(cov)
    \/ \E j \in DOMAIN parameters, v \in Values : SetParameter(j, v)

Spec == Init /\ [][Next]_vars

(***************************************************************************)
(* contours() and ContourWorker.                                           *)
(*                                                                         *)
(* A dict of keyword arguments is a function from keys to values; a key is *)
(* a string, kept as the sequence of its characters like a parameter name. *)
(* The error_<name> and limit_<name> entries of the engine's fitarg are    *)
(* copied along unread by all the code modelled here and are left out.     *)
(***************************************************************************)
FixKey(n) == << "f", "i", "x", "_" >> \o n
ErrordefKey == << "e", "r", "r", "o", "r", "d", "e", "f" >>
PrintLevelKey == << "p", "r", "i", "n", "t", "_", "l", "e", "v", "e", "l" >>

\* d[k] = v on a dict
Put(d, k, v) == [x \in DOMAIN d \cup {k} |-> IF x = k THEN v ELSE d[x]]

\* numpy.linspace(lo, hi, n), in integers: n evenly spaced values from lo to
\* hi, the one value lo when n = 1.
Linspace(lo, hi, n) ==
    IF n = 1 THEN << lo >>
    ELSE [j \in 1 .. n |-> lo + ((j - 1) * (hi - lo)) \div (n - 1)]

\* threeML.utils.cartesian.cartesian([s1, s2]): the grid of pairs, the first
\* axis varying slowest.
Cartesian(s1, s2) ==
    [k \in 1 .. Len(s1) * Len(s2) |->
        << s1[((k - 1) \div Len(s2)) + 1], s2[((k - 1) % Len(s2)) + 1] >>]

\* self.name_to_position = {k: i for i, k in enumerate(names)}  (0-based; of
\* two equal names the later position stays)
NameToPosition(sig) ==
    [n \in Range(sig) |->
        (CHOOSE j \in DOMAIN sig :
            sig[j] = n /\ \A l \in DOMAIN sig : sig[l] = n => l <= j) - 1]

\* self.minuit.fitarg: the engine's current keyword arguments.
FitArg(m) ==
    [k \in DOMAIN m.values \cup { FixKey(n) : n \in DOMAIN m.values }
              \cup {ErrordefKey, PrintLevelKey} |->
        IF k \in DOMAIN m.values THEN m.values[k]
        ELSE IF k = ErrordefKey THEN "0.5"
        ELSE IF k = PrintLevelKey THEN 0
        ELSE FALSE]

\* ContourWorker.__init__: the baseline arguments are the fitarg copy with
\* the engine's current values written over it, errordef 0.5, print_level 0.
NewWorker(function, minuit_values, minuit_args, minuit_param_1, minuit_param_2, name_to_position) ==
    [ function |-> function,
      minuit_args |->
          [k \in DOMAIN minuit_args \cup DOMAIN minuit_values
                    \cup {ErrordefKey, PrintLevelKey} |->
              IF k = ErrordefKey THEN "0.5"
              ELSE IF k = PrintLevelKey THEN 0
              ELSE IF k \in DOMAIN minuit_values THEN minuit_values[k]
              ELSE minuit_args[k]],
      minuit_param_1 |-> minuit_param_1,
      minuit_param_2 |-> minuit_param_2,
      name_to_position |-> name_to_position ]

Value(v) == [status |-> "value", value |-> v, exc |-> "none"]
Raise(exc) == [status |-> "raise", value |-> 0, exc |-> exc]
Pending == [status |-> "pending", value |-> 0, exc |-> "none"]

\* How the evaluation of a grid point with first coordinate value_1 goes:
\* "raises" (the objective raises there), "not_converged" (a MIGRAD pass
\* there ends without converging) or "converged".
KindAt(b, value_1) == IF value_1 = b.at THEN b.kind ELSE "converged"

\* Minuit(function, **args), line 849: the engine takes a keyword only if it
\* is a variable of the function's signature, a fix_ flag of one, or an
\* option of its own; any other keyword makes the constructor raise.
EngineAccepts(sig, args) ==
    DOMAIN args \subseteq
        Range(sig) \cup { FixKey(n) : n \in Range(sig) }
                   \cup {ErrordefKey, PrintLevelKey}

\* A variable of the engine is fixed if the keywords say so.
IsFixed(args, n) == FixKey(n) \in DOMAIN args /\ args[FixKey(n)]

\* A variable of the signature without a keyword of its own starts at the
\* engine's default.
StartValue(args, n) == IF n \in DOMAIN args THEN args[n] ELSE 0

\* this_contour_minuit.list_of_vary_param()
ListOfVaryParam(sig, args) == { n \in Range(sig) : ~ IsFixed(args, n) }

\* self._function(*xs): the call raises TypeError unless it passes as many
\* arguments as the signature has and the instance's objective takes, and
\* raises where the objective does.
CallFunction(b, f, xs, value_1) ==
    IF Len(xs) # Len(f.signature) \/ Len(xs) # f.npar THEN Raise("TypeError")
    ELSE IF KindAt(b, value_1) = "raises" THEN Raise("ObjectiveError")
    ELSE Value(Objective(xs))

\* The fval a MIGRAD pass leaves in a per-point engine: converged, the least
\* objective value over the free parameters; not converged, the objective
\* where the pass started.
ContourFval(sig, args, converged) ==
    LET start == [j \in DOMAIN sig |-> StartValue(args, sig[j])]
        reach == { [j \in DOMAIN sig |->
                       IF IsFixed(args, sig[j]) THEN start[j] ELSE zs[j]] :
                   zs \in [DOMAIN sig -> Values] }
        fvals == { Objective(xs) : xs \in reach }
    IN  IF converged
        THEN CHOOSE f \in fvals : \A g \in fvals : f <= g
        ELSE Objective(start)

\* The parameters under scrutiny, in the order of the loop of line 879.
Scrutinized(w) ==
    IF w.minuit_param_2 = None THEN << w.minuit_param_1 >>
    ELSE << w.minuit_param_1, w.minuit_param_2 >>

\* The arguments with the second grid value written in whether or not there
\* is a second parameter.
PointArgsWritesPlaceholder(w, point) ==
    LET a1 == Put(w.minuit_args, w.minuit_param_1, point[1])
        a2 == Put(a1, w.minuit_param_2, point[2])
        names == Scrutinized(w)
        not_free == { j \in DOMAIN names : names[j] \notin DOMAIN a2 }
    IN  [ not_free |-> not_free,
          args |-> [k \in DOMAIN a2 \cup { FixKey(names[j]) : j \in DOMAIN names }
                       |-> IF \E j \in DOMAIN names : k = FixKey(names[j])
                           THEN TRUE ELSE a2[k]] ]

\* The keyword arguments of the grid point's engine (lines 868-892): a copy
\* of the baseline with the grid values written in, then, name by name, the
\* test for a free parameter and the fix_ flag.  not_free is the first name
\* that fails the test, if any.
PointArgs(w, point) ==
    LET a1 == Put(w.minuit_args, w.minuit_param_1, point[1])
        a2 == IF w.minuit_param_2 # None
              THEN Put(a1, w.minuit_param_2, point[2]) ELSE a1
        names == Scrutinized(w)
        not_free == { j \in DOMAIN names : names[j] \notin DOMAIN a2 }
    IN  [ not_free |-> not_free,
          args |-> [k \in DOMAIN a2 \cup { FixKey(names[j]) : j \in DOMAIN names }
                       |-> IF \E j \in DOMAIN names : k = FixKey(names[j])
                           THEN TRUE ELSE a2[k]] ]

\* A direct evaluation that passes the two grid values in the order of the
\* call, first parameter first.
DirectEvaluationCallOrder(b, w, point) ==
    IF w.minuit_param_2 = None
    THEN CallFunction(b, w.function, << point[1] >>, point[1])
    ELSE CallFunction(b, w.function, << point[1], point[2] >>, point[1])

\* The zero-free-parameter case (lines 900-920): the objective directly.
DirectEvaluation(b, w, point) ==
    IF w.minuit_param_2 = None
    THEN CallFunction(b, w.function, << point[1] >>, point[1])
    ELSE LET pos1 == w.name_to_position[w.minuit_param_1]
             pos2 == w.name_to_position[w.minuit_param_2]
             this_variables ==
                 [j \in 1 .. 2 |-> IF j = pos2 + 1 THEN point[2]
                                   ELSE IF j = pos1 + 1 THEN point[1]
                                   ELSE 0]
         IN  IF pos1 > 1 \/ pos2 > 1 THEN Raise("IndexError")
             ELSE CallFunction(b, w.function, this_variables, point[1])

\* The MIGRAD pass of a grid point (lines 922-937): FIT_FAILED if the pass
\* raises, as it does where the objective raises and when the function
\* cannot be called with the engine's variables; else the engine's fval,
\* converged or not.
PointMigrad(b, w, args, point) ==
    IF KindAt(b, point[1]) = "raises" THEN Value(FIT_FAILED)
    ELSE IF Len(w.function.signature) # w.function.npar THEN Value(FIT_FAILED)
    ELSE Value(ContourFval(w.function.signature, args,
                           KindAt(b, point[1]) = "converged"))

\* A worker that writes the grid point into its baseline arguments instead
\* of into a copy.
WorkerAfterCallInPlace(w, point) ==
    [w EXCEPT !.minuit_args = PointArgs(w, point).args]

\* ContourWorker.__call__(args): what the call leaves of the worker.  The
\* grid values and the fix_ flags go into this_minuit_args, a dict() copy of
\* self._minuit_args (line 868), and the engine is a new object made from
\* that copy (line 895); no attribute of the worker is assigned.
WorkerAfterCall(w, point) == w

\* ContourWorker.__call__(args): what the call returns or raises.
WorkerCall(b, w, point) ==
    LET pa == PointArgs(w, point)
    IN  IF pa.not_free # {} THEN Raise("ParameterIsNotFree")
        ELSE IF ~ EngineAccepts(w.function.signature, pa.args) THEN Raise("EngineError")
        ELSE IF ListOfVaryParam(w.function.signature, pa.args) = {}
        THEN DirectEvaluation(b, w, point)
        ELSE PointMigrad(b, w, pa.args, point)

\* The reshape with the two axes taken the other way round.
ReshapeColumnMajor(results, n1, n2) ==
    [r \in 1 .. n1 |-> [c \in 1 .. n2 |-> results[(c - 1) * n1 + r]]]

\* numpy.array(results).reshape((n1, n2)): row r holds results
\* (r - 1) * n2 + 1 .. r * n2.
Reshape(results, n1, n2) ==
    [r \in 1 .. n1 |-> [c \in 1 .. n2 |-> results[(r - 1) * n2 + c]]]

\* The triple contours() returns (lines 716-717).
ContoursResult(f, results) ==
    << f.steps1, f.steps2, Reshape(results, Len(f.steps1), Len(f.steps2)) >>

\* ProgressBar(total) of threeML.io.progress_bar, of which the model keeps
\* the total and the last count shown.
NewProgressBar(total) == [total |-> total, shown |-> 0]

Finished(res) == Append(history, [parallel |-> frame.parallel, result |-> res])

\* contours(...) up to the start of the computation (lines 493-680): the
\* steps, the grid, the restore of the best fit (or the warning), the worker;
\* then either the serial map is about to start, with its progress bar if
\* asked for, or the grid has been submitted to the pool with map_async and
\* the progress bar of the parallel branch made.
ContoursCall(param_1, lo1, hi1, n1, param_2, lo2, hi2, n2, progress, parallel) ==
    /\ pc = "idle"
    /\ n1 * (IF param_2 = None THEN 1 ELSE n2) <= MaxGrid
    /\ LET steps1 == Linspace(lo1, hi1, n1)
           steps2 == IF param_2 = None THEN << NaN >>
                     ELSE Linspace(lo2, hi2, n2)
           grid == Cartesian(steps1, steps2)
           has_fit == best_fit_parameters # None /\ best_fit_parameters[1] # << >>
           ps == IF has_fit
                 THEN RestoredParameters(parameters, best_fit_parameters[1])
                 ELSE parameters
           m == IF has_fit
                THEN [minuit EXCEPT !.values =
                        RestoredValues(parameters, best_fit_parameters[1], @)]
                ELSE minuit
           worker == NewWorker(BoundF(ps, class_f), m.values, FitArg(m),
                               ParameterNameToMinuitName(param_1),
                               IF param_2 = None THEN None
                               ELSE ParameterNameToMinuitName(param_2),
                               NameToPosition(Signature(ps)))
       IN  /\ parameters' = ps
           /\ minuit' = m
           /\ frame' = [ param_1 |-> param_1, param_2 |-> param_2,
                         steps1 |-> steps1, steps2 |-> steps2, grid |-> grid,
                         parallel |-> parallel, progress |-> progress,
                         warned |-> ~ has_fit, worker |-> worker,
                         results |-> << >> ]
           /\ IF ~ parallel
              THEN /\ pc' = "serial_map"
                   /\ pool' = << >>
                   /\ progress_bar' = IF progress
                                      THEN Some(NewProgressBar(Len(grid)))
                                      ELSE None
              ELSE /\ pc' = "poll"
                   /\ pool' = [k \in DOMAIN grid |-> Pending]
                   /\ progress_bar' = Some(NewProgressBar(2 * Len(grid)))
    /\ last' = NoResult
    /\ run' = NoRun
    /\ UNCHANGED << best_fit_parameters, function_minimum_value, i, stored_by,
                    behaviour, history, root, class_f >>

\* One element of results = map(wrap, grid) (lines 635-659): the worker on
\* the next grid point, then progress_bar.increase() if there is a bar.  An
\* exception of the worker ends contours() with it; after the last point
\* contours() returns.
SerialStep ==
    /\ pc = "serial_map"
    /\ LET k == Len(frame.results) + 1
           out == WorkerCall(behaviour, frame.worker, frame.grid[k])
           results == Append(frame.results, out.value)
       IN  IF out.status = "raise"
           THEN /\ pc' = "idle"
                /\ last' = Raised("contours", out.exc)
                /\ history' = Finished(Raised("contours", out.exc))
                /\ frame' = [frame EXCEPT
                                !.worker = WorkerAfterCall(@, frame.grid[k])]
                /\ UNCHANGED progress_bar
           ELSE /\ frame' = [frame EXCEPT
                                !.results = results,
                                !.worker = WorkerAfterCall(@, frame.grid[k])]
                /\ progress_bar' =
                      IF progress_bar = None THEN None
                      ELSE Some([progress_bar[1] EXCEPT !.shown = @ + 1])
                /\ IF k < Len(frame.grid)
                   THEN UNCHANGED << pc, last, history >>
                   ELSE /\ pc' = "idle"
                        /\ last' = Returned("contours",
                                            ContoursResult(frame, results))
                        /\ history' = Finished(Returned("contours",
                                            ContoursResult(frame, results)))
    /\ UNCHANGED << parameters, minuit, best_fit_parameters,
                    function_minimum_value, i, run, stored_by, behaviour, pool,
                    root, class_f >>

\* The pool handed the grid in the reverse order: task k computes the grid
\* point counted from the end.
TaskRunReversed(k) ==
    /\ pc = "poll"
    /\ pool[k] = Pending
    /\ pool' = [pool EXCEPT ![k] =
                   WorkerCall(behaviour, frame.worker,
                              frame.grid[Len(frame.grid) + 1 - k])]
    /\ frame' = [frame EXCEPT
                    !.worker = WorkerAfterCall(@, frame.grid[Len(frame.grid) + 1 - k])]
    /\ UNCHANGED << fit_vars, behaviour, progress_bar, history, root, class_f >>

\* A worker of the pool runs the submitted task k, at any time after the
\* submission and in any order.
TaskRun(k) ==
    /\ pc = "poll"
    /\ pool[k] = Pending
    /\ pool' = [pool EXCEPT ![k] = WorkerCall(behaviour, frame.worker, frame.grid[k])]
    /\ frame' = [frame EXCEPT !.worker = WorkerAfterCall(@, frame.grid[k])]
    /\ UNCHANGED << fit_vars, behaviour, progress_bar, history, root, class_f >>

\* amr.ready() and amr.progress of the pool's handle
Ready == \A k \in DOMAIN pool : pool[k] # Pending
Progress == Cardinality({ k \in DOMAIN pool : pool[k] # Pending })

\* One round of the polling loop (lines 685-701): not ready, so sleep and
\* progress.animate(amr.progress - 1).
Poll ==
    /\ pc = "poll"
    /\ ~ Ready
    /\ progress_bar' = Some([progress_bar[1] EXCEPT !.shown = Progress - 1])
    /\ UNCHANGED << fit_vars, behaviour, frame, pool, history, root, class_f >>

\* The handle is ready (lines 703-717): amr.get() raises if a task raised
\* (the model keeps the exception of the first such task), else it gives the
\* results in the order of submission; then progress.animate(n_points) and
\* the return.
Collect ==
    /\ pc = "poll"
    /\ Ready
    /\ pc' = "idle"
    /\ LET failed == { k \in DOMAIN pool : pool[k].status = "raise" }
           results == [k \in DOMAIN pool |-> pool[k].value]
       IN  IF failed # {}
           THEN LET first == CHOOSE k \in failed : \A l \in failed : k <= l
                IN  /\ last' = Raised("contours", pool[first].exc)
                    /\ history' = Finished(Raised("contours", pool[first].exc))
                    /\ UNCHANGED << frame, progress_bar >>
           ELSE /\ frame' = [frame EXCEPT !.results = results]
                /\ progress_bar' = Some([progress_bar[1] EXCEPT
                                            !.shown = 2 * Len(frame.grid)])
                /\ last' = Returned("contours", ContoursResult(frame, results))
                /\ history' = Finished(Returned("contours",
                                                ContoursResult(frame, results)))
    /\ UNCHANGED << parameters, minuit, best_fit_parameters,
                    function_minimum_value, i, run, stored_by, behaviour, pool,
                    root, class_f >>

(***************************************************************************)
(* The contour sessions the model follows: a binding in a state it can be  *)
(* in between operations, one contours() call, and after a parallel call   *)
(* the same call once more under the serial strategy.                      *)
(***************************************************************************)
\* every parameter of the registry at value v
AllAt(reg, v) == [j \in DOMAIN reg |-> [name |-> reg[j], value |-> v]]

BaselineValues == {0, MaxVal}

Behaviours ==
    {NoTrouble} \cup
    { [at |-> v, kind |-> k] : v \in Values, k \in {"raises", "not_converged"} }

\* MinuitMinimizer._f at the time of the call: the function the construction
\* of this binding installed, or the one installed by a MinuitMinimizer
\* constructed since then on one of the registries (a case followed with an
\* objective that gives no trouble).
ClassAttributes(ps) ==
    { AddMethod(AddMethod(None, Signature(ps)), Signature(AllAt(reg, 0))) :
        reg \in Registries }

\* The binding before the call: never fitted (registry and engine where the
\* caller and failed passes left them), or holding the best fit of a
\* successful minimize() that ended at MaxVal, registry and engine moved
\* since or not.
InitContour ==
    /\ \E reg \in Registries, a \in BaselineValues, b \in BaselineValues :
         /\ parameters = AllAt(reg, a)
         /\ \E bf \in {None, Some(BestFitOf(AllAt(reg, MaxVal),
                                   InitMinuit(AllAt(reg, MaxVal), FTOL)))} :
              /\ best_fit_parameters = bf
              /\ function_minimum_value =
                    IF bf = None THEN None
                    ELSE Some(Objective([j \in DOMAIN bf[1] |-> bf[1][j][2]]))
              /\ stored_by = IF bf = None
                             THEN [best_fit |-> "none", minimum |-> "none"]
                             ELSE [best_fit |-> "new", minimum |-> "new"]
              /\ minuit = [InitMinuit(AllAt(reg, b),
                                      IF bf = None THEN FTOL + 1 ELSE FTOL)
                             EXCEPT !.fval = Objective([j \in DOMAIN reg |-> b])]
    /\ pc = "idle"
    /\ i = 0
    /\ run = NoRun
    /\ last = NoResult
    /\ behaviour \in Behaviours
    /\ NoContours
    /\ root = NoRoot
    /\ class_f \in ClassAttributes(parameters)
    /\ class_f # AddMethod(None, Signature(parameters)) => behaviour = NoTrouble

\* the parameters a call may name: the registry's and the undeclared PZ
Nameable == Range(ParNames(parameters)) \cup {PZ}

\* the second call of a session repeats a parallel first call serially
SecondCallRepeats(param_1, n1, param_2, n2, progress, parallel) ==
    \/ history = << >>
    \/ /\ Len(history) = 1
       /\ param_1 = frame.param_1 /\ param_2 = frame.param_2
       /\ n1 = Len(frame.steps1) /\ n2 = Len(frame.steps2)
       /\ progress = frame.progress
       /\ frame.parallel /\ ~ parallel

NextContour ==
    \/ \E param_1 \in Nameable, param_2 \in Nameable \cup {None},
          n1 \in 1 .. MaxSteps, n2 \in 1 .. MaxSteps,
          progress \in BOOLEAN, parallel \in BOOLEAN :
         /\ param_1 # param_2
         /\ param_2 = None => n2 = 1
         /\ SecondCallRepeats(param_1, n1, param_2, n2, progress, parallel)
         /\ ContoursCall(param_1, 0, MaxVal, n1, param_2, 0, MaxVal, n2,
                         progress, parallel)
    \/ SerialStep
    \/ \E k \in DOMAIN pool : TaskRun(k)
    \/ Poll
    \/ Collect

SpecContour == InitContour /\ [][NextContour]_vars

(***************************************************************************)
(* The parallel strategy on its own: one contours() call under             *)
(* parallel = True on a binding never fitted.  The calling thread runs its *)
(* loop and what follows it without stopping (time.sleep(1) ends), which   *)
(* is weak fairness of Poll and of Collect; of the pool nothing is         *)
(* assumed: a task may never run.                                          *)
(***************************************************************************)
InitParallel ==
    /\ InitContour
    /\ best_fit_parameters = None
    /\ class_f = AddMethod(None, Signature(parameters))

NextParallel ==
    \/ \E param_1 \in Nameable, param_2 \in Nameable \cup {None},
          n1 \in 1 .. MaxSteps, n2 \in 1 .. MaxSteps, progress \in BOOLEAN :
         /\ param_1 # param_2
         /\ param_2 = None => n2 = 1
         /\ history = << >>
         /\ ContoursCall(param_1, 0, MaxVal, n1, param_2, 0, MaxVal, n2,
                         progress, TRUE)
    \/ \E k \in DOMAIN pool : TaskRun(k)
    \/ Poll
    \/ Collect

SpecParallel ==
    InitParallel /\ [][NextParallel]_vars /\ WF_vars(Poll) /\ WF_vars(Collect)

(***************************************************************************)
(* Construction of the bindings.  A session starts from a registry (an     *)
(* OrderedDict, so its keys are distinct) whose parameters carry           *)
(* min_value and max_value, each None or set; a constructor is called on   *)
(* it, and a ROOTMinimizer is then asked to minimize.                      *)
(***************************************************************************)
NoEngine == None

\* The registries a constructor is handed.
ConstructorRegistries ==
    UNION { { [j \in 1 .. n |->
                 [name |-> names[j], value |-> 0,
                  min_value |-> mins[j], max_value |-> maxs[j]]] :
              names \in { f \in [1 .. n -> {PX, PY, PU}] :
                            \A a, b \in 1 .. n : f[a] = f[b] => a = b },
              mins \in [1 .. n -> {None, Some(0)}],
              maxs \in [1 .. n -> {None, Some(MaxVal)}] } :
            n \in 1 .. MaxPar }

\* MinuitMinimizer.__init__ (lines 89-167).  The engine names are collected
\* in registry order and spelled out as the arguments of the generated
\* 'def _f(self, ...)'; Python refuses a definition with a repeated argument
\* name (SyntaxError at the exec of line 143).  Otherwise the engine is made
\* with errordef 0.5.  The constructed binding's variable names,
\* name_to_position and errordef are kept as the constructor's result.
NewMinuitMinimizer(edm) ==
    /\ pc = "new"
    /\ LET variable_names_for_iminuit == Signature(parameters)
       IN  IF \E a, b \in DOMAIN parameters :
                 a # b /\ variable_names_for_iminuit[a] = variable_names_for_iminuit[b]
           THEN /\ pc' = "failed"
                /\ last' = Raised("MinuitMinimizer", "SyntaxError")
                /\ UNCHANGED << minuit, class_f >>
           ELSE /\ pc' = "idle"
                /\ class_f' = AddMethod(class_f, variable_names_for_iminuit)
                /\ minuit' = InitMinuit(parameters, edm)
                /\ last' = Returned("MinuitMinimizer",
                      [ variable_names |-> variable_names_for_iminuit,
                        name_to_position |->
                            NameToPosition(variable_names_for_iminuit),
                        errordef |-> FitArg(InitMinuit(parameters, edm))[ErrordefKey] ])
    /\ UNCHANGED << parameters, best_fit_parameters, function_minimum_value,
                    i, run, stored_by, contour_vars, root >>

\* FuncWrapper.__init__: the adapter keeps the function and int(dimensions).
FuncWrapper(function, dimensions) ==
    [function |-> function, dimensions |-> dimensions]

\* FuncWrapper.NDim.
NDim(f) == f.dimensions

\* A DoEval that hands the whole argument buffer to the function.
DoEvalForwardsAll(f, args) ==
    [called_with |-> args, value |-> Objective(args)]

\* FuncWrapper.DoEval: new_args = map(lambda i: args[i], range(dimensions));
\* return self.function(*new_args).  called_with records the positional
\* arguments the function receives.
DoEval(f, args) ==
    LET new_args == [j \in 1 .. f.dimensions |-> args[j]]
    IN  [called_with |-> new_args, value |-> Objective(new_args)]

\* ROOT.Math.Factory.CreateMinimizer(...) followed by Clear(): an engine with
\* no variable declared.  Nothing in the sources sets its error definition,
\* which stays at the engine's default.
NewRootEngine(algorithm) ==
    [algorithm |-> algorithm, errordef |-> "default", variables |-> << >>,
     minimized |-> FALSE]

\* The call that declares a parameter as variable ivar of the engine
\* (minimization.py lines 755-780, ROOT_minimizer.py lines 45-68).
DeclaredVariable(ivar, par) ==
    [ ivar |-> ivar, name |-> par.name, value |-> par.value,
      lower |-> par.min_value, upper |-> par.max_value,
      method |->
          IF par.min_value # None /\ par.max_value # None
              THEN "SetLimitedVariable"
          ELSE IF par.min_value # None /\ par.max_value = None
              THEN "SetLowerLimitedVariable"
          ELSE IF par.min_value = None /\ par.max_value # None
              THEN "SetUpperLimitedVariable"
          ELSE "SetVariable" ]

\* The set-up of the engine, as both variants write it: create, then
\* for i, par in enumerate(self.parameters.values()): declare.
SetUpEngine(algorithm, ps) ==
    [ algorithm |-> NewRootEngine(algorithm).algorithm,
      errordef  |-> NewRootEngine(algorithm).errordef,
      minimized |-> NewRootEngine(algorithm).minimized,
      functor   |-> FuncWrapper("function", Len(ps)),
      variables |-> [j \in DOMAIN ps |-> DeclaredVariable(j - 1, ps[j])] ]

\* ROOTMinimizer.__init__ of minimization.py (lines 742-780) sets the engine
\* up; that of ROOT_minimizer.py (lines 27-29) only calls the base class
\* constructor, which (minimization.py lines 51-67) stores its arguments.
NewROOTMinimizer(variant) ==
    /\ pc = "new"
    /\ pc' = "root_idle"
    /\ root' = [ variant |-> variant,
                 minimizer |-> IF variant = "minimization"
                               THEN Some(SetUpEngine("Minuit", parameters))
                               ELSE None ]
    /\ last' = Returned("ROOTMinimizer", << >>)
    /\ UNCHANGED << parameters, minuit, best_fit_parameters,
                    function_minimum_value, i, run, stored_by, contour_vars, class_f >>

\* ROOTMinimizer._setup of ROOT_minimizer.py (lines 31-68), which no code in
\* the sources calls: the caller may.
RootSetup ==
    /\ pc = "root_idle"
    /\ root.variant = "ROOT_minimizer"
    /\ root' = [root EXCEPT !.minimizer = Some(SetUpEngine("Minuit2", parameters))]
    /\ last' = Returned("_setup", << >>)
    /\ UNCHANGED << parameters, minuit, best_fit_parameters,
                    function_minimum_value, pc, i, run, stored_by, contour_vars, class_f >>

\* ROOTMinimizer.minimize().  Without an engine the first statement
\* (self.minimizer.SetPrintLevel) raises AttributeError.  Otherwise Minimize()
\* runs and leaves the point xs; minimization.py (lines 782-809) returns
\* (xs, functor(xs)); ROOT_minimizer.py (lines 70-90) goes on to
\* _compute_covariance_matrix or _store_fit_results, which the base class of
\* the sources does not have: AttributeError.
RootMinimize(xs) ==
    /\ pc = "root_idle"
    /\ IF root.minimizer = None
       THEN /\ last' = Raised("minimize", "AttributeError")
            /\ UNCHANGED root
       ELSE /\ root' = [root EXCEPT !.minimizer =
                          Some([root.minimizer[1] EXCEPT !.minimized = TRUE])]
            /\ last' = IF root.variant = "minimization"
                       THEN Returned("minimize",
                                     << xs, DoEval(root.minimizer[1].functor, xs).value >>)
                       ELSE Raised("minimize", "AttributeError")
    /\ UNCHANGED << parameters, minuit, best_fit_parameters,
                    function_minimum_value, pc, i, run, stored_by, contour_vars, class_f >>

\* The engine asks the adapter of a set-up ROOTMinimizer for its dimension.
FunctorNDim ==
    /\ pc = "root_idle"
    /\ root.minimizer # None
    /\ last' = Returned("NDim", NDim(root.minimizer[1].functor))
    /\ UNCHANGED << parameters, minuit, best_fit_parameters,
                    function_minimum_value, pc, i, run, stored_by, contour_vars,
                    root, class_f >>

\* The engine evaluates the adapter on a buffer args, which may be longer
\* than the adapter's dimension.
FunctorDoEval(args) ==
    /\ pc = "root_idle"
    /\ root.minimizer # None
    /\ last' = Returned("DoEval",
                        [ args |-> args,
                          result |-> DoEval(root.minimizer[1].functor, args) ])
    /\ UNCHANGED << parameters, minuit, best_fit_parameters,
                    function_minimum_value, pc, i, run, stored_by, contour_vars,
                    root, class_f >>

\* The buffers the engine passes: one value per declared variable, followed
\* by zero or one further entry.
Buffers(n) ==
    [1 .. n -> Values] \cup { xs \o << MaxVal >> : xs \in [1 .. n -> Values] }

InitConstruct ==
    /\ parameters \in ConstructorRegistries
    /\ minuit = NoEngine
    /\ best_fit_parameters = None
    /\ function_minimum_value = None
    /\ pc = "new"
    /\ i = 0
    /\ run = NoRun
    /\ last = NoResult
    /\ stored_by = [best_fit |-> "none", minimum |-> "none"]
    /\ behaviour = NoTrouble
    /\ NoContours
    /\ root = NoRoot
    /\ class_f = None

NextConstruct ==
    \/ \E edm \in EdmValues : NewMinuitMinimizer(edm)
    \/ \E variant \in {"minimization", "ROOT_minimizer"} : NewROOTMinimizer(variant)
    \/ RootSetup
    \/ \E xs \in [1 .. Len(parameters) -> Values] : RootMinimize(xs)
    \/ FunctorNDim
    \/ \E args \in Buffers(Len(parameters)) : FunctorDoEval(args)

SpecConstruct == InitConstruct /\ [][NextConstruct]_vars

(***************************************************************************)
(* Claims about minimize() and the result store.                           *)
(***************************************************************************)
MinimizeEnded == pc = "idle" /\ last.op = "minimize"

MinimizeFailed ==
    MinimizeEnded /\ last = Returned("minimize", << << >>, FIT_FAILED >>)

\* C1: when every MIGRAD pass of a minimize() call completes with an edm that
\* does not satisfy the convergence criterion, the call makes exactly TRIALS
\* (10) passes, raises nothing, and returns the empty ordered mapping
\* together with FIT_FAILED.
C1_FailureAfterExactlyTenPasses ==
    (MinimizeEnded /\ ~ run.raised /\ ~ run.converged)
        => /\ run.passes = TRIALS
           /\ last = Returned("minimize", << << >>, FIT_FAILED >>)

C1_Witness ==
    /\ MinimizeFailed
    /\ ~ run.raised /\ ~ run.converged
    /\ run.passes = TRIALS

\* C2: minimize() never makes more than TRIALS (10) passes and makes none
\* once TRIALS are done; it makes no pass after the first one whose edm
\* satisfies the criterion; and it returns a successful (non-sentinel) result
\* exactly when one of its passes satisfied the criterion.
C2_AtMostTenPassesStopAtFirstConverged ==
    /\ run.passes <= TRIALS
    /\ pc = "run_migrad" => (run.passes < TRIALS /\ ~ run.converged)
    /\ MinimizeEnded =>
          (run.converged <=>
              /\ last.status = "returned"
              /\ last.ret[1] # << >>
              /\ last.ret[2] # FIT_FAILED)

C2_Witness ==
    /\ MinimizeEnded /\ last.status = "returned"
    /\ run.converged
    /\ run.passes > 1 /\ run.passes < TRIALS
    /\ last.ret[2] # FIT_FAILED

\* C3: after a minimize() call that fails, the result store is cleared or
\* marked failed: best_fit_parameters is None or empty and
\* function_minimum_value is None or the sentinel.
C3_FailedCallClearsStore ==
    MinimizeFailed
        => /\ best_fit_parameters \in {None, Some(<< >>)}
           /\ function_minimum_value \in {None, Some(FIT_FAILED)}

\* C4: the stored best fit and the stored minimum are never a mix of two
\* calls: both are unset, or both were written by the same minimize() call;
\* and a successful call leaves both written by itself, equal to the pair it
\* returns.
C4_StoreIsAllOrNothing ==
    /\ stored_by.best_fit = stored_by.minimum
    /\ (stored_by.best_fit = "none") <=> (best_fit_parameters = None)
    /\ (stored_by.minimum = "none") <=> (function_minimum_value = None)
    /\ (MinimizeEnded /\ last.status = "returned" /\ run.converged)
          => /\ stored_by = [best_fit |-> "new", minimum |-> "new"]
             /\ best_fit_parameters = Some(last.ret[1])
             /\ function_minimum_value = Some(last.ret[2])

\* a successful call has overwritten the result of an earlier successful call
C4_Witness ==
    /\ MinimizeEnded /\ last.status = "returned" /\ run.converged
    /\ run.had_prior
    /\ stored_by = [best_fit |-> "new", minimum |-> "new"]

\* C5: get_errors() on a binding with a non-empty registry and no successful
\* minimize() so far raises CannotComputeErrors and nothing else.
C5_GetErrorsBeforeFitRaisesCannotComputeErrors ==
    (pc = "idle" /\ last.op = "get_errors" /\ best_fit_parameters = None)
        => last = Raised("get_errors", "CannotComputeErrors")


(***************************************************************************)
(* Claims about the agreement of registry, engine and result store.        *)
(***************************************************************************)
MinimizeSucceeded ==
    MinimizeEnded /\ last.status = "returned" /\ last.ret[2] # FIT_FAILED
GetErrorsReturned ==
    pc = "idle" /\ last.op = "get_errors" /\ last.status = "returned"

\* registry, engine and store hold the same value for every parameter
RegistryEngineStoreAgree ==
    /\ best_fit_parameters # None
    /\ Keys(best_fit_parameters[1]) = ParNames(parameters)
    /\ \A j \in DOMAIN parameters :
          /\ parameters[j].value = Lookup(best_fit_parameters[1], parameters[j].name)
          /\ minuit.values[ParameterNameToMinuitName(parameters[j].name)]
                = parameters[j].value

\* the engine's values under the registry's names, in registry order
EngineValuesByName(ps, m) ==
    [j \in DOMAIN ps |->
        << ps[j].name, m.values[ParameterNameToMinuitName(ps[j].name)] >>]

\* C11: when minimize() returns a successful result and when get_errors()
\* returns normally, every parameter's registry value, engine value and
\* stored best-fit value are equal, whatever HESSE or MINOS left in the
\* engine; and the best fit a successful minimize() stores is the engine's
\* values as the converged pass left them, before HESSE.
C11_RegistryEngineAndStoreAgreeAfterFitAndErrors ==
    /\ []((MinimizeSucceeded \/ GetErrorsReturned) => RegistryEngineStoreAgree)
    /\ [][(pc = "after_migrad" /\ MinimizeSucceeded')
            => best_fit_parameters' = Some(EngineValuesByName(parameters, minuit))]_vars

\* get_errors() has returned normally on a registry of two parameters
C11_Witness ==
    /\ GetErrorsReturned
    /\ Len(parameters) = 2
    /\ run = NoRun

\* contours() has seeded its worker with the stored best fit
ContoursSeededFromBestFit ==
    \A j \in DOMAIN parameters :
        frame.worker.minuit_args[ParameterNameToMinuitName(parameters[j].name)]
            = Lookup(best_fit_parameters[1], parameters[j].name)

\* C12: with a best fit stored, print_fit_results(), print_correlation_matrix()
\* and contours() write the best fit back into the registry and the engine
\* before they use either: when one of them ends, registry and engine hold
\* the best fit, print_fit_results() has displayed the best-fit values and
\* contours() has seeded its worker with them, whatever the caller changed
\* since the fit.
C12_ValueDependentOperationsRestoreFirst ==
    /\ (/\ pc = "idle"
        /\ last.op \in {"print_fit_results", "print_correlation_matrix"}
        /\ best_fit_parameters # None)
          => RegistryEngineStoreAgree
    /\ (pc = "idle" /\ last.op = "print_fit_results" /\ last.status = "returned")
          => last.ret = best_fit_parameters[1]
    /\ (frame # NoFrame /\ ~ frame.warned)
          => (RegistryEngineStoreAgree /\ ContoursSeededFromBestFit)

\* the part of C12 about print_fit_results() and contours()
PrintFitResultsAndContoursRestoreFirst ==
    /\ (pc = "idle" /\ last.op = "print_fit_results" /\ best_fit_parameters # None)
          => (RegistryEngineStoreAgree /\ last.ret = best_fit_parameters[1])
    /\ (frame # NoFrame /\ ~ frame.warned)
          => (RegistryEngineStoreAgree /\ ContoursSeededFromBestFit)

\* C13: contours() on a binding with no best fit stored warns and goes on
\* (the missing fit raises nothing), and its worker is seeded with the values
\* the registry holds at the call, also when the caller changed the registry
\* after the construction or a failed minimize() moved the engine.
C13_ContoursWithoutFitSeedsFromRegistry ==
    (frame # NoFrame /\ best_fit_parameters = None) =>
        /\ frame.warned
        /\ \A j \in DOMAIN parameters :
              frame.worker.minuit_args[ParameterNameToMinuitName(parameters[j].name)]
                  = parameters[j].value

\* C17: a successful minimize() returns the mapping from the registry's
\* parameter names, dotted as in the registry and in its order, to the
\* engine's values as the converged pass left them, and with it the engine's
\* objective value of that pass.
C17_MinimizeReturnsRegistryNamesInOrder ==
    /\ [](MinimizeSucceeded => Keys(last.ret[1]) = ParNames(parameters))
    /\ [][(pc = "after_migrad" /\ MinimizeSucceeded')
            => /\ \A j \in DOMAIN parameters :
                     last'.ret[1][j] =
                        << parameters[j].name,
                           minuit.values[Signature(parameters)[j]] >>
               /\ last'.ret[2] = minuit.fval]_vars

\* a successful minimize() has returned two parameters with different values
C17_Witness ==
    /\ MinimizeSucceeded
    /\ Len(last.ret[1]) = 2
    /\ last.ret[1][1][2] # last.ret[1][2][2]

\* C20: with a best fit stored, a _restore_best_fit() that directly follows
\* another changes no registry value and no engine value, and after either
\* call registry and engine hold the stored best fit.
C20_RestoreBestFitIsIdempotent ==
    /\ []((pc = "idle" /\ last.op = "_restore_best_fit"
                       /\ last.status = "returned")
            => RegistryEngineStoreAgree)
    /\ [][(/\ last.op = "_restore_best_fit" /\ last.status = "returned"
           /\ last'.op = "_restore_best_fit" /\ last'.status = "returned")
            => (parameters' = parameters /\ minuit' = minuit)]_vars

\* _restore_best_fit() has returned twice in a row
C20_Witness ==
    /\ pc = "idle"
    /\ last = Returned("_restore_best_fit", << TRUE >>)
    /\ Len(parameters) = 2

\* C21: print_correlation_matrix() displays a matrix only from a covariance
\* the engine reported; when the engine reports none it raises
\* CannotComputeCovariance and has displayed nothing.
C21_NoCovarianceRaisesAndDisplaysNothing ==
    (pc = "idle" /\ last.op = "print_correlation_matrix") =>
        /\ last.status = "returned" => last.ret.cov # None
        /\ last.status # "returned"
              => last = [op |-> "print_correlation_matrix", status |-> "raised",
                         exc |-> "CannotComputeCovariance", ret |-> << >>]

\* print_correlation_matrix() has raised on a binding that holds a best fit
C21_Witness ==
    /\ pc = "idle"
    /\ last.op = "print_correlation_matrix"
    /\ last.exc = "CannotComputeCovariance"
    /\ best_fit_parameters # None

\* C29: a get_errors() call that raises CannotComputeErrors leaves the
\* registry's values and the engine's values as they were before the call.
C29_CannotComputeErrorsChangesNothing ==
    [][(/\ pc = "idle"
        /\ last'.op = "get_errors"
        /\ last'.exc = "CannotComputeErrors")
          => (parameters' = parameters /\ minuit'.values = minuit.values)]_vars

\* C30: on every exit of get_errors() after MINOS started, by return or by
\* the exception MINOS raised, the engine holds the stored best fit.
C30_EngineAtBestFitAfterMinos ==
    (/\ pc = "idle"
     /\ last.op = "get_errors"
     /\ last.status = "returned" \/ last.exc = "EngineError")
        => \A j \in DOMAIN parameters :
              minuit.values[ParameterNameToMinuitName(parameters[j].name)]
                  = Lookup(best_fit_parameters[1], parameters[j].name)

(***************************************************************************)
(* Claims about the construction of the bindings.                          *)
(***************************************************************************)
\* C14: every engine this code makes runs its first pass with the error
\* definition 0.5: the engine of a MinuitMinimizer, the engine of each grid
\* point of a contour, and the engine of a ROOTMinimizer.
C14_EveryEngineHasErrordefOneHalf ==
    /\ (last.op = "MinuitMinimizer" /\ last.status = "returned")
          => last.ret.errordef = "0.5"
    /\ frame # NoFrame => frame.worker.minuit_args[ErrordefKey] = "0.5"
    /\ (root.minimizer # None /\ root.minimizer[1].minimized)
          => root.minimizer[1].errordef = "0.5"

\* the parts of C14 about the MinuitMinimizer and the contour engines
MinuitEnginesHaveErrordefOneHalf ==
    /\ (last.op = "MinuitMinimizer" /\ last.status = "returned")
          => last.ret.errordef = "0.5"
    /\ frame # NoFrame => frame.worker.minuit_args[ErrordefKey] = "0.5"

\* which bounds of a parameter are set
BoundClass(par) ==
    << par.min_value # None, par.max_value # None >>

\* which bounds the call that declared a variable gives it
DeclaredClass(v) ==
    CASE v.method = "SetLimitedVariable" -> << TRUE, TRUE >>
      [] v.method = "SetLowerLimitedVariable" -> << TRUE, FALSE >>
      [] v.method = "SetUpperLimitedVariable" -> << FALSE, TRUE >>
      [] v.method = "SetVariable" -> << FALSE, FALSE >>

\* C22: a FuncWrapper of dimensionality N hands the wrapped function exactly
\* the first N entries of the buffer, in order, as positional arguments and
\* returns the function's value; NDim() answers N before and after any
\* evaluation; neither call changes the adapter or the engine holding it.
C22_FuncWrapperForwardsFirstNArguments ==
    /\ (pc = "root_idle" /\ last.op = "DoEval") =>
            LET N == Len(parameters)
            IN  /\ Len(last.ret.result.called_with) = N
                /\ \A j \in 1 .. N :
                       last.ret.result.called_with[j] = last.ret.args[j]
                /\ last.ret.result.value = Objective(SubSeq(last.ret.args, 1, N))
                /\ root.minimizer[1].functor = FuncWrapper("function", N)
    /\ (pc = "root_idle" /\ last.op = "NDim") =>
            /\ last.ret = Len(parameters)
            /\ root.minimizer[1].functor = FuncWrapper("function", Len(parameters))

C22_Witness ==
    /\ pc = "root_idle" /\ last.op = "DoEval" /\ last.status = "returned"
    /\ Len(parameters) = 2
    /\ Len(last.ret.args) = 3
    /\ last.ret.args[1] # last.ret.args[2]
    /\ root.minimizer[1].minimized

\* C15: when minimize() is asked of a constructed ROOTMinimizer, of either
\* variant, its engine has exactly one declared variable per registry entry,
\* variable number j being the j-th entry, declared as bounded, lower-bounded,
\* upper-bounded or unbounded according to which of min_value and max_value
\* the parameter has set.
C15_RootEngineDeclaresTheRegistryInOrder ==
    (pc = "root_idle" /\ last.op = "minimize") =>
        /\ root.minimizer # None
        /\ LET variables == root.minimizer[1].variables
           IN  /\ Len(variables) = Len(parameters)
               /\ \A j \in DOMAIN variables :
                     /\ variables[j].ivar = j - 1
                     /\ variables[j].name = parameters[j].name
                     /\ DeclaredClass(variables[j]) = BoundClass(parameters[j])

\* C16: the engine names of a registry's parameters are pairwise distinct, so
\* that the constructor succeeds and name_to_position gives the j-th
\* parameter's engine name the position j - 1.
C16_EngineNamesAreABijection ==
    last.op = "MinuitMinimizer" =>
        /\ \A a, b \in DOMAIN parameters :
              a # b => ParameterNameToMinuitName(parameters[a].name)
                          # ParameterNameToMinuitName(parameters[b].name)
        /\ last.status = "returned"
        /\ \A j \in DOMAIN parameters :
              last.ret.name_to_position[
                  ParameterNameToMinuitName(parameters[j].name)] = j - 1

(***************************************************************************)
(* Claims about contours().                                                *)
(***************************************************************************)
ContoursEnded == pc = "idle" /\ last.op = "contours"
ContoursReturned == ContoursEnded /\ last.status = "returned"

\* the call names a parameter the binding never declared
NamesUndeclared(f) ==
    \/ f.param_1 \notin Range(ParNames(parameters))
    \/ f.param_2 # None /\ f.param_2 \notin Range(ParNames(parameters))

\* grid point k of the call goes through a MIGRAD pass: its engine is made
\* and has a parameter left to vary
RunsMigrad(f, k) ==
    LET pa == PointArgs(f.worker, f.grid[k])
    IN  /\ pa.not_free = {}
        /\ EngineAccepts(f.worker.function.signature, pa.args)
        /\ ListOfVaryParam(f.worker.function.signature, pa.args) # {}

\* the cell of the returned matrix that grid point k fills
Cell(matrix, f, k) ==
    matrix[((k - 1) \div Len(f.steps2)) + 1][((k - 1) % Len(f.steps2)) + 1]

\* C6: a contours() call in which param_1 or param_2 names a parameter that
\* the binding did not declare ends by raising ParameterIsNotFree, in the 1D
\* and in the 2D case.
C6_UndeclaredParameterRaisesParameterIsNotFree ==
    (ContoursEnded /\ NamesUndeclared(frame))
        => last = Raised("contours", "ParameterIsNotFree")

\* C7: in the matrix contours() returns, the cell of a grid point whose
\* MIGRAD pass ended without raising and without converging holds
\* FIT_FAILED.
C7_NonConvergedPointIsFitFailed ==
    ContoursReturned =>
        \A k \in DOMAIN frame.grid :
            (RunsMigrad(frame, k)
                /\ KindAt(behaviour, frame.grid[k][1]) = "not_converged")
            => Cell(last.ret[3], frame, k) = FIT_FAILED

\* C8: no exception of a grid point's evaluation leaves contours(): the call
\* returns, and the cell of a grid point whose evaluation raised (in making
\* the engine, in the direct evaluation of the objective, or in the MIGRAD
\* pass) holds FIT_FAILED.
C8_GridPointExceptionNeverPropagates ==
    ContoursEnded =>
        /\ last.status = "returned"
        /\ \A k \in DOMAIN frame.grid :
              (\/ ~ EngineAccepts(frame.worker.function.signature,
                                  PointArgs(frame.worker, frame.grid[k]).args)
               \/ KindAt(behaviour, frame.grid[k][1]) = "raises")
              => Cell(last.ret[3], frame, k) = FIT_FAILED

\* C9: the matrix a 2-parameter contours() call returns has Len(steps1) rows
\* of Len(steps2) cells, and cell [r][c] is what the worker computes for the
\* point (steps1[r], steps2[c]); serial or parallel, and in the parallel case
\* in whatever order the pool completed the points.
C9_CellHoldsValueOfItsGridPoint ==
    (ContoursReturned /\ frame.param_2 # None) =>
        LET steps1 == last.ret[1]
            steps2 == last.ret[2]
            matrix == last.ret[3]
        IN  /\ Len(matrix) = Len(frame.steps1)
            /\ \A r \in DOMAIN matrix :
                  /\ Len(matrix[r]) = Len(frame.steps2)
                  /\ \A c \in DOMAIN matrix[r] :
                        matrix[r][c] =
                            WorkerCall(behaviour, frame.worker,
                                       << steps1[r], steps2[c] >>).value

\* A parallel 2-by-2 contour has returned a matrix whose cells off the
\* diagonal differ.
C9_Witness ==
    /\ ContoursReturned
    /\ frame.parallel
    /\ frame.param_2 # None
    /\ Len(last.ret[3]) = 2
    /\ Len(last.ret[3][1]) = 2
    /\ last.ret[3][1][2] # last.ret[3][2][1]

\* C10: the same contour computed by the pool, its points completing in any
\* order, and then serially from the same state of the binding gives the
\* same matrix twice.
C10_SerialAndParallelMatricesAreIdentical ==
    (/\ Len(history) = 2
     /\ history[1].result.status = "returned"
     /\ history[2].result.status = "returned")
        => history[1].result.ret[3] = history[2].result.ret[3]

\* Both strategies have returned a matrix of more than one row whose cells
\* are not all the same.
C10_Witness ==
    /\ Len(history) = 2
    /\ history[1].parallel /\ ~ history[2].parallel
    /\ history[1].result.status = "returned"
    /\ history[2].result.status = "returned"
    /\ Len(history[2].result.ret[3]) = 2
    /\ history[2].result.ret[3][1] # history[2].result.ret[3][2]

\* C18: the triple a 1-parameter contours() call returns has None as its
\* second element.
C18_OneParameterContourReturnsNoneSecond ==
    (ContoursReturned /\ frame.param_2 = None) => last.ret[2] = None

\* the keys of a grid point's engine arguments that hold a number
NumericKeys(w, args) ==
    DOMAIN args \ ({ErrordefKey}
                   \cup { FixKey(n) : n \in DOMAIN w.name_to_position
                                            \cup {w.minuit_param_1} })

C23_WorkerAdapterHasOwnSignature ==
    frame # NoFrame =>
        frame.worker.function.signature = Signature(parameters)

\* fixing the parameters under scrutiny leaves the engine of every grid point
\* of the call without a parameter to vary
ZeroFree(f) ==
    \A k \in DOMAIN f.grid :
        LET pa == PointArgs(f.worker, f.grid[k])
        IN  /\ pa.not_free = {}
            /\ EngineAccepts(f.worker.function.signature, pa.args)
            /\ ListOfVaryParam(f.worker.function.signature, pa.args) = {}

\* the objective's arguments when the parameters of the call are pinned at
\* v1 and v2: one value per registry entry, each at its registry position
PinnedAtRegistryPositions(f, v1, v2) ==
    [j \in DOMAIN parameters |->
        IF parameters[j].name = f.param_1 THEN v1 ELSE v2]

\* C24: when fixing the parameters under scrutiny leaves no free parameter,
\* no minimization pass is run: every cell is the objective evaluated at the
\* pinned values, each at its registry position, whichever of the two
\* parameters the call names first (so naming them the other way round with
\* the ranges swapped gives the same value for the same point); a pass that
\* would not converge plays no part, and an objective that raises at a grid
\* point is not answered by the failure value of a pass.
C24_ZeroFreeEvaluatesObjectiveAtRegistryPositions ==
    /\ (ContoursReturned /\ ZeroFree(frame)) =>
          \A r \in DOMAIN frame.steps1, c \in DOMAIN frame.steps2 :
              last.ret[3][r][c] =
                  Objective(PinnedAtRegistryPositions(frame, frame.steps1[r],
                                                      frame.steps2[c]))
    /\ (ContoursEnded /\ ZeroFree(frame) /\ behaviour.kind = "raises"
           /\ behaviour.at \in Range(frame.steps1)) =>
          last.status = "raised"

C24_Witness ==
    /\ ContoursReturned /\ ZeroFree(frame)
    /\ frame.param_1 = PY /\ frame.param_2 = PX
    /\ Len(frame.steps1) = 2 /\ Len(frame.steps2) = 2
    /\ last.ret[3][1][2] # last.ret[3][2][1]
    /\ behaviour.kind = "not_converged"

\* the steps of the computation of a contours() call, grid point by grid point
Computing == pc \in {"serial_map", "poll"}

\* C25: the evaluations of the grid points share no state that changes.
\* Every step of the computation, the worker being called on the points in
\* grid order or in any other, leaves the worker (its baseline arguments
\* among the rest), the stored best fit and minimum, the registry and the
\* main engine as they were; so at every moment of the computation and after
\* it the baseline arguments hold the values the main engine had at the
\* start, which are the values it still has.
C25_GridPointEvaluationsShareNoMutableState ==
    /\ [][Computing =>
             /\ frame'.worker = frame.worker
             /\ parameters' = parameters
             /\ minuit' = minuit
             /\ best_fit_parameters' = best_fit_parameters
             /\ function_minimum_value' = function_minimum_value]_vars
    /\ [](frame # NoFrame =>
             \A n \in DOMAIN minuit.values :
                 frame.worker.minuit_args[n] = minuit.values[n])

C25_Witness ==
    /\ pc = "poll"
    /\ Len(frame.grid) = 4
    /\ pool[1] = Pending /\ pool[2] = Pending
    /\ pool[4].status = "value" /\ pool[3].status = "value"
    /\ pool[3].value # pool[4].value
    /\ frame.param_2 = None
       \/ frame.worker.minuit_args[frame.worker.minuit_param_2] # frame.grid[4][2]

\* The protocol of the parallel branch: the call submits every grid point,
\* in grid order, as one batch of pending tasks; while the call polls, the
\* batch is the one submitted (nothing is added, nothing resubmitted, a done
\* task stays done); the results are collected in a step taken with the
\* handle ready; and a ready handle leads to the end of the call.
ParallelProtocol ==
    /\ [][(pc = "idle" /\ pc' = "poll") =>
              pool' = [k \in DOMAIN frame'.grid |-> Pending]]_vars
    /\ [][pc = "poll" =>
              /\ DOMAIN pool' = DOMAIN pool
              /\ frame'.grid = frame.grid
              /\ \A k \in DOMAIN pool : pool[k] # Pending => pool'[k] = pool[k]]_vars
    /\ [][(pc = "poll" /\ pc' = "idle") => Ready]_vars
    /\ (pc = "poll" /\ Ready) ~> ContoursEnded

\* C26: under the parallel strategy contours() submits the whole ordered grid
\* to the pool exactly once and then polls the handle; it collects the
\* results only after the handle reported ready; and if the handle reports
\* ready, contours() eventually returns.
C26_ParallelSubmitsOncePollsAndReturnsWhenReady ==
    /\ ParallelProtocol
    /\ (pc = "poll" /\ Ready) ~> ContoursReturned

\* C27: a contours() call made with progress = False creates no progress
\* bar and reports no progress, under either strategy.
C27_NoProgressWhenNotAskedFor ==
    (frame # NoFrame /\ ~ frame.progress) => progress_bar = None

\* C28: under both strategies the total of the progress bar is the number of
\* grid points and every count shown lies in 0 .. total; under the serial
\* strategy the count after k evaluated points is k.
C28_ProgressCountsGridPoints ==
    (frame # NoFrame /\ progress_bar # None) =>
        /\ progress_bar[1].total = Len(frame.grid)
        /\ progress_bar[1].shown \in 0 .. progress_bar[1].total
        /\ ~ frame.parallel => progress_bar[1].shown = Len(frame.results)

=============================================================================
